---------------------------- MODULE Spec2Model ----------------------------
(***************************************************************************)
(* Consumer side of the encrypted streaming ingestion pipeline:            *)
(* ListenerService (src/services/listener/listener.js), the batch codec    *)
(* and the crypto helpers (src/utility/messageGenerator.js) and the        *)
(* minute-bucket store TimeSeriesData (src/models/TimeSeriesData.js).      *)
(*                                                                         *)
(* Node.js runs one thread: a handler runs without interruption up to its  *)
(* next await of a storage call.  Every storage call (findOne, create,     *)
(* findOneAndUpdate, updateOne) is one atomic step of the database on one  *)
(* document, and the calls of different handlers interleave freely.        *)
(*                                                                         *)
(* Texts that the code splits (the wire stream, an envelope) are sequences *)
(* of tokens; the tokens are strings.  "|" is the batch delimiter, ":" the *)
(* envelope separator, " " white space, every other token stands for a     *)
(* run of hex digits or of plaintext characters.                           *)
(***************************************************************************)
EXTENDS Integers, Sequences, FiniteSets, TLC

VARIABLES
    clock,              \* the last reading of the time (new Date()), in ticks
    store,              \* the TimeSeriesData collection: a set of documents
    processingStats,    \* ListenerService.processingStats
    connectedEmitters,  \* ListenerService.connectedEmitters: socket id -> info
    handlers,           \* the invocations of handleMessageStream
    faults,             \* storage calls that have failed so far
    calls,              \* history: the addRecord calls made, with their outcome
    emitter,            \* the EmitterService object, its sockets and its timers
    trace,              \* history: what the emitter has been through
    call,               \* the last call of a utility function, with its result
    process             \* the listener's process: its shutdown and its exit

vars == <<clock, store, processingStats, connectedEmitters, handlers, faults, calls,
          emitter, trace, call, process>>

\* the listener leaves these alone
emitterVars == <<emitter, trace, call>>

-----------------------------------------------------------------------------
(* Bounds of the model *)

MaxClock == 2           \* the clock stops at this tick
MaxFaults == 1          \* storage calls that may fail in one run

TicksPerMinute == 2     \* clock ticks in one minute bucket

Sockets == {"s1", "s2"}
Handlers == {1, 2}      \* the invocations of handleMessageStream, in order of arrival

\* socket ids are interchangeable: the first batch is taken to arrive on s1
SocketsOf(h) == IF h = 1 THEN {"s1"} ELSE Sockets

-----------------------------------------------------------------------------
(* Sequences *)

RECURSIVE SplitFrom(_, _, _, _)
SplitFrom(rest, d, cur, acc) ==
    IF rest = <<>> THEN Append(acc, cur)
    ELSE IF Head(rest) = d
         THEN SplitFrom(Tail(rest), d, <<>>, Append(acc, cur))
         ELSE SplitFrom(Tail(rest), d, Append(cur, Head(rest)), acc)

\* String.prototype.split(d): the pieces between the delimiters, empty ones kept
Split(s, d) == SplitFrom(s, d, <<>>, <<>>)

RECURSIVE JoinFrom(_, _, _)
JoinFrom(xs, d, acc) ==
    IF xs = <<>> THEN acc
    ELSE JoinFrom(Tail(xs), d, acc \o <<d>> \o Head(xs))

\* Array.prototype.join(d)
Join(xs, d) == IF xs = <<>> THEN <<>> ELSE JoinFrom(Tail(xs), d, Head(xs))

RECURSIVE SumSeq(_)
SumSeq(s) == IF s = <<>> THEN 0 ELSE Head(s) + SumSeq(Tail(s))

-----------------------------------------------------------------------------
(* The message universe.  loadData() reads names, origins and destinations *)
(* from data.json; a message is an object {name, origin, destination}, and *)
(* a tagged message has the field secret_key as well.                      *)

Names == {"Asha", "Ravi"}
Origins == {"Mumbai"}
Destinations == {"Delhi", "Pune"}

\* Object.keys(obj).sort(): the keys of the universe in lexicographic order
KeysSorted == <<"destination", "name", "origin", "secret_key">>
\* the order in which generateRandomMessage and createMessageWithHash insert
KeysInserted == <<"name", "origin", "destination", "secret_key">>

Without(obj, key) == [k \in DOMAIN obj \ {key} |-> obj[k]]

RECURSIVE Concat(_)
Concat(ss) == IF ss = <<>> THEN "" ELSE Head(ss) \o Concat(Tail(ss))

\* SHA-256 of a text, hex encoded: an injective function of the text
sha256(text) == "sha256(" \o text \o ")"

\* createHash: the keys sorted, "key:value" joined by "|", then the digest
createHash(obj) ==
    LET sortedKeys == SelectSeq(KeysSorted, LAMBDA k : k \in DOMAIN obj)
        pairs == [i \in 1..Len(sortedKeys) |->
                     <<sortedKeys[i] \o ":" \o obj[sortedKeys[i]]>>]
        objString == Concat(Join(pairs, "|"))
    IN  sha256(objString)

\* createMessageWithHash
createMessageWithHash(originalMessage) ==
    [k \in DOMAIN originalMessage \cup {"secret_key"} |->
        IF k = "secret_key" THEN createHash(originalMessage) ELSE originalMessage[k]]

\* variant: validateSecretKey that forgets to take secret_key out before hashing
validateSecretKeyWholeMessage(messageWithKey) ==
    /\ "secret_key" \in DOMAIN messageWithKey
    /\ messageWithKey["secret_key"] = createHash(messageWithKey)

\* validateSecretKey: the tag against the hash of the other fields; a message
\* without the field has secret_key undefined, which equals no hash
validateSecretKey(messageWithKey) ==
    LET originalMessage == Without(messageWithKey, "secret_key")
        expectedHash == createHash(originalMessage)
    IN  /\ "secret_key" \in DOMAIN messageWithKey
        /\ messageWithKey["secret_key"] = expectedHash

OriginalMessages == [name : Names, origin : Origins, destination : Destinations]
SecretKeys == {createHash(m) : m \in OriginalMessages} \cup {"invalid_key"}
TaggedMessages ==
    [name : Names, origin : Origins, destination : Destinations, secret_key : SecretKeys]
Objects == OriginalMessages \cup TaggedMessages

\* JSON.stringify of an object of the universe, fields in insertion order
JSONstringify(obj) ==
    LET keys == SelectSeq(KeysInserted, LAMBDA k : k \in DOMAIN obj)
        pairs == [i \in 1..Len(keys) |-> <<keys[i] \o ":" \o obj[keys[i]]>>]
    IN  "{" \o Concat(Join(pairs, ",")) \o "}"

\* JSON.parse: the object whose text this is, or a SyntaxError
JSONparse(text) ==
    IF \E obj \in Objects : JSONstringify(obj) = text
    THEN [ok |-> TRUE, value |-> CHOOSE obj \in Objects : JSONstringify(obj) = text]
    ELSE [ok |-> FALSE, error |-> "Unexpected token in JSON"]

-----------------------------------------------------------------------------
(* AES-256-CTR under the key derived from SECRET_KEY.  An initialization   *)
(* vector is one token; the ciphertext of a non-empty text is one token    *)
(* that determines the text for the one vector it was made with.           *)

IVs == {"iv1", "iv2"}
NotJSON == "not json"
Garbage == "garbage"
Plaintexts == {JSONstringify(obj) : obj \in Objects} \cup {NotJSON}

\* cipher.update(text) + cipher.final() in hex
Cipher(iv, text) == "ctr(" \o iv \o "," \o text \o ")"

\* encrypt: hex(iv) + ':' + hex(ciphertext); the empty text has no ciphertext
encrypt(text, iv) ==
    <<iv, ":">> \o (IF text = "" THEN <<>> ELSE <<Cipher(iv, text)>>)

\* variant: decrypt that takes an empty ciphertext for a format error
decryptNeedsCiphertext(encryptedText) ==
    LET textParts == Split(encryptedText, ":") IN
    IF Len(textParts) # 2 \/ textParts[2] = <<>>
    THEN [ok |-> FALSE, error |-> "Invalid encrypted text format"]
    ELSE LET ivPart == textParts[1]
             encrypted == textParts[2]
         IN  IF ~(Len(ivPart) = 1 /\ ivPart[1] \in IVs)
             THEN [ok |-> FALSE, error |-> "Invalid initialization vector"]
             ELSE IF /\ Len(encrypted) = 1
                     /\ \E t \in Plaintexts : Cipher(ivPart[1], t) = encrypted[1]
             THEN [ok |-> TRUE,
                   value |-> CHOOSE t \in Plaintexts : Cipher(ivPart[1], t) = encrypted[1]]
             ELSE [ok |-> TRUE, value |-> Garbage]

\* decrypt: exactly two parts around ':', a 16-byte vector, then the stream
\* cipher, which turns any other bytes into an unreadable text
decrypt(encryptedText) ==
    LET textParts == Split(encryptedText, ":") IN
    IF Len(textParts) # 2
    THEN [ok |-> FALSE, error |-> "Invalid encrypted text format"]
    ELSE LET ivPart == textParts[1]
             encrypted == textParts[2]
         IN  IF ~(Len(ivPart) = 1 /\ ivPart[1] \in IVs)
             THEN [ok |-> FALSE, error |-> "Invalid initialization vector"]
             ELSE IF encrypted = <<>>
             THEN [ok |-> TRUE, value |-> ""]
             ELSE IF /\ Len(encrypted) = 1
                     /\ \E t \in Plaintexts : Cipher(ivPart[1], t) = encrypted[1]
             THEN [ok |-> TRUE,
                   value |-> CHOOSE t \in Plaintexts : Cipher(ivPart[1], t) = encrypted[1]]
             ELSE [ok |-> TRUE, value |-> Garbage]

-----------------------------------------------------------------------------
(* The batch codec *)

\* variant: the producer joins with ',' while the consumer splits on '|'
createMessageStreamComma(encryptedMessages) == Join(encryptedMessages, ",")

\* createMessageStream: the envelopes joined by '|'
createMessageStream(encryptedMessages) == Join(encryptedMessages, "|")

\* variant: the filter without trim()
NonEmpty(msg) == msg # <<>>

\* msg.trim().length > 0
NonBlank(msg) == \E i \in 1..Len(msg) : msg[i] # " "

\* variant: parseMessageStream without its check of the input (line 96)
parseMessageStreamUnchecked(messageStream) ==
    [ok |-> TRUE,
     value |-> IF messageStream.type = "string"
               THEN SelectSeq(Split(messageStream.chars, "|"), NonBlank)
               ELSE <<>>]

\* parseMessageStream: a stream that is no string, or the empty string, is an
\* error; otherwise the pieces between '|' that are not blank, in order
parseMessageStream(messageStream) ==
    IF messageStream.type # "string" \/ messageStream.chars = <<>>
    THEN [ok |-> FALSE, error |-> "Invalid message stream format"]
    ELSE [ok |-> TRUE,
          value |-> SelectSeq(Split(messageStream.chars, "|"), NonBlank)]


-----------------------------------------------------------------------------
(* TimeSeriesData: one document per minute bucket.  The fields yearMonth,  *)
(* dateOnly and hour are functions of timestamp and are left out, and so   *)
(* are the housekeeping dates createdAt and updatedAt.                     *)

\* createMinuteBucket: the timestamp rounded down to the minute, and its key
createMinuteBucket(timestamp) ==
    [minuteBucket |-> timestamp \div TicksPerMinute,
     timestamp |-> (timestamp \div TicksPerMinute) * TicksPerMinute]

\* the documents a filter on minuteBucket matches
Matching(coll, minuteBucket) == {d \in coll : d.minuteBucket = minuteBucket}

\* findOne({minuteBucket}): whether a document was found (the code reads no more)
findOne(coll, minuteBucket) == Matching(coll, minuteBucket) # {}

\* the document create() saves (lines 158-168)
NewDocument(bucketInfo, record) ==
    [minuteBucket |-> bucketInfo.minuteBucket,
     timestamp |-> bucketInfo.timestamp,
     records |-> <<record>>,
     routes |-> <<>>,
     nameFrequency |-> <<>>,
     recordCount |-> 1,
     firstRecordTime |-> record.timestamp,
     lastRecordTime |-> record.timestamp]

\* variant: the schema without unique: true on minuteBucket
UniqueIndexOff(coll, doc) == TRUE

\* the unique index on minuteBucket: an insert with a key already there fails
UniqueIndexAllows(coll, doc) == Matching(coll, doc.minuteBucket) = {}

\* variant: create() that drops the duplicate key error
createIgnoringDuplicate(coll, doc) ==
    IF UniqueIndexAllows(coll, doc)
    THEN [ok |-> TRUE, coll |-> coll \cup {doc}]
    ELSE [ok |-> TRUE, coll |-> coll]

\* create(doc): the insert, or the duplicate key error of the unique index
create(coll, doc) ==
    IF UniqueIndexAllows(coll, doc)
    THEN [ok |-> TRUE, coll |-> coll \cup {doc}]
    ELSE [ok |-> FALSE, coll |-> coll, error |-> "E11000 duplicate key error"]

\* variant: the update without its $inc of recordCount
PushRecordNoInc(doc, record) ==
    [doc EXCEPT !.records = Append(@, record),
                !.lastRecordTime = record.timestamp]

\* variant: the $push with $position: 0
PushRecordFirst(doc, record) ==
    [doc EXCEPT !.records = <<record>> \o @,
                !.recordCount = @ + 1,
                !.lastRecordTime = record.timestamp]

\* $push records, $inc recordCount, $set lastRecordTime: one atomic update
\* of one document
PushRecord(doc, record) ==
    [doc EXCEPT !.records = Append(@, record),
                !.recordCount = @ + 1,
                !.lastRecordTime = record.timestamp]

\* findOneAndUpdate({minuteBucket}, ..., {new: true}): the updated document,
\* or null when no document matches
findOneAndUpdate(coll, minuteBucket, record) ==
    LET hits == Matching(coll, minuteBucket) IN
    IF hits = {}
    THEN [coll |-> coll, found |-> FALSE]
    ELSE LET doc == CHOOSE d \in hits : TRUE
         IN  [coll |-> (coll \ {doc}) \cup {PushRecord(doc, record)},
              found |-> TRUE]

\* the index of the first element of an array whose field f is v, 0 if none
FirstIndex(array, f, v) ==
    IF \E i \in 1..Len(array) : array[i][f] = v
    THEN CHOOSE i \in 1..Len(array) :
            /\ array[i][f] = v
            /\ \A j \in 1..(i - 1) : array[j][f] # v
    ELSE 0

\* variant: the $inc update that matches no document
updateOneIncNoMatch(coll, minuteBucket, arr, f, v) == coll

\* updateOne({minuteBucket, 'arr.f': v}, {$inc: {'arr.$.count': 1}})
updateOneInc(coll, minuteBucket, arr, f, v) ==
    LET hits == {d \in Matching(coll, minuteBucket) : FirstIndex(d[arr], f, v) # 0} IN
    IF hits = {}
    THEN coll
    ELSE LET doc == CHOOSE d \in hits : TRUE
             i == FirstIndex(doc[arr], f, v)
         IN  (coll \ {doc}) \cup {[doc EXCEPT ![arr][i].count = @ + 1]}

\* variant: the $push update without $ne in its filter
updateOnePushAlways(coll, minuteBucket, arr, f, v) ==
    LET hits == Matching(coll, minuteBucket) IN
    IF hits = {}
    THEN coll
    ELSE LET doc == CHOOSE d \in hits : TRUE
             entry == [k \in {f, "count"} |-> IF k = f THEN v ELSE 1]
         IN  (coll \ {doc}) \cup {[doc EXCEPT ![arr] = Append(@, entry)]}

\* updateOne({minuteBucket, 'arr.f': {$ne: v}}, {$push: {arr: {f: v, count: 1}}})
updateOnePush(coll, minuteBucket, arr, f, v) ==
    LET hits == {d \in Matching(coll, minuteBucket) : FirstIndex(d[arr], f, v) = 0} IN
    IF hits = {}
    THEN coll
    ELSE LET doc == CHOOSE d \in hits : TRUE
             entry == [k \in {f, "count"} |-> IF k = f THEN v ELSE 1]
         IN  (coll \ {doc}) \cup {[doc EXCEPT ![arr] = Append(@, entry)]}

\* the four storage steps of updateAggregatedData, in order
updateAggregatedDataStep(coll, step, minuteBucket, route, name) ==
    CASE step = 1 -> updateOneInc(coll, minuteBucket, "routes", "route", route)
      [] step = 2 -> updateOnePush(coll, minuteBucket, "routes", "route", route)
      [] step = 3 -> updateOneInc(coll, minuteBucket, "nameFrequency", "name", name)
      [] step = 4 -> updateOnePush(coll, minuteBucket, "nameFrequency", "name", name)

AggregationSteps == 4

\* the sum of the counts of a counter array
SumCounts(array) == SumSeq([i \in 1..Len(array) |-> array[i].count])


-----------------------------------------------------------------------------
(* ListenerService: the per-item pipeline and the per-batch counts *)

\* lines 183-193 of processEncryptedMessage, which run without an await:
\* decrypt, JSON.parse, validateSecretKey, and the tag stripped
validateEncryptedMessage(encryptedMessage) ==
    LET decrypted == decrypt(encryptedMessage) IN
    IF ~decrypted.ok
    THEN [kind |-> "throw", error |-> decrypted.error]
    ELSE LET parsed == JSONparse(decrypted.value) IN
         IF ~parsed.ok
         THEN [kind |-> "throw", error |-> parsed.error]
         ELSE IF ~validateSecretKey(parsed.value)
         THEN [kind |-> "return", reason |-> "Invalid secret key"]
         ELSE [kind |-> "save", originalMessage |-> Without(parsed.value, "secret_key")]

\* what processEncryptedMessage gives back to the loop
Returned(valid, saved, reason) ==
    [threw |-> FALSE, valid |-> valid, saved |-> saved, reason |-> reason]
Thrown(error) ==
    [threw |-> TRUE, valid |-> FALSE, saved |-> FALSE, reason |-> error]

\* variant: processEncryptedMessage without its catch: the exception escapes
processEncryptedMessageNoCatch(error) == Thrown(error)

\* the catch of processEncryptedMessage (lines 210-217): every exception of
\* the item becomes the result {valid: false, saved: false, reason}
processEncryptedMessageCatch(error) == Returned(FALSE, FALSE, error)

\* the catch of addRecord (lines 175-177): the error is thrown again, wrapped
addRecordCatch(error) == "Failed to add record: " \o error

\* the results object of a batch (lines 118-125)
NewResults(encryptedMessages) ==
    [messageCount |-> Len(encryptedMessages),
     processedCount |-> 0,
     validCount |-> 0,
     invalidCount |-> 0,
     savedCount |-> 0,
     errors |-> <<>>]

\* variant: the loop without the else branch of lines 139-141
countItemNoInvalid(results, i, outcome) ==
    IF outcome.threw
    THEN [results EXCEPT !.errors =
              Append(@, [messageIndex |-> i, error |-> outcome.reason])]
    ELSE [results EXCEPT
              !.processedCount = @ + 1,
              !.validCount = IF outcome.valid THEN @ + 1 ELSE @,
              !.savedCount = IF outcome.valid /\ outcome.saved THEN @ + 1 ELSE @]

\* the body of the loop after the item's await (lines 131-148)
countItem(results, i, outcome) ==
    IF outcome.threw
    THEN [results EXCEPT !.errors =
              Append(@, [messageIndex |-> i, error |-> outcome.reason])]
    ELSE [results EXCEPT
              !.processedCount = @ + 1,
              !.validCount = IF outcome.valid THEN @ + 1 ELSE @,
              !.savedCount = IF outcome.valid /\ outcome.saved THEN @ + 1 ELSE @,
              !.invalidCount = IF outcome.valid THEN @ ELSE @ + 1]

\* variant: line 116 with = for +=
addReceivedOverwrite(stats, encryptedMessages) ==
    [stats EXCEPT !.totalReceived = Len(encryptedMessages)]

\* line 116
addReceived(stats, encryptedMessages) ==
    [stats EXCEPT !.totalReceived = @ + Len(encryptedMessages)]

\* variant: lines 151-155 with = for +=
foldResultsOverwrite(stats, results) ==
    [stats EXCEPT !.totalProcessed = results.processedCount,
                  !.totalValid = results.validCount,
                  !.totalInvalid = results.invalidCount,
                  !.totalSaved = results.savedCount,
                  !.errors = Len(results.errors)]

\* lines 151-155
foldResults(stats, results) ==
    [stats EXCEPT !.totalProcessed = @ + results.processedCount,
                  !.totalValid = @ + results.validCount,
                  !.totalInvalid = @ + results.invalidCount,
                  !.totalSaved = @ + results.savedCount,
                  !.errors = @ + Len(results.errors)]

-----------------------------------------------------------------------------
(* The batches the emitters send *)

Msg1 == [name |-> "Asha", origin |-> "Mumbai", destination |-> "Delhi"]
Msg2 == [name |-> "Ravi", origin |-> "Mumbai", destination |-> "Delhi"]

EnvGood1 == encrypt(JSONstringify(createMessageWithHash(Msg1)), "iv1")
EnvGood2 == encrypt(JSONstringify(createMessageWithHash(Msg2)), "iv2")
\* a field changed after tagging
EnvBadTag ==
    encrypt(JSONstringify([createMessageWithHash(Msg1) EXCEPT !.destination = "Pune"]), "iv1")
\* a plaintext that is no JSON
EnvBadJSON == encrypt(NotJSON, "iv2")
\* no ':' separator
EnvBadFormat == <<"iv1">>

Batches ==
    { <<EnvGood1>>,
      <<EnvBadFormat, EnvGood1>>,
      <<EnvGood2, EnvBadTag>>,
      <<EnvBadJSON, EnvGood2>> }

StringOf(chars) == [type |-> "string", chars |-> chars]
Undefined == [type |-> "undefined"]

Streams ==
    {StringOf(createMessageStream(b)) : b \in Batches}
    \cup {StringOf(<<"|", " ", "|">>), StringOf(<<>>), Undefined}

\* the payloads of the encrypted_message_stream event
Datas == {[type |-> "object", stream |-> st] : st \in Streams} \cup {Undefined}

-----------------------------------------------------------------------------
(* EmitterService (src/unnamed/part_000).  The object's fields, the sockets *)
(* it has created with io() and the timers it has set are one record; a    *)
(* method is a function from the record before the call to the record      *)
(* after it.  A socket is "connecting", "connected" or "closed"; with       *)
(* reconnection: false a closed socket raises no more events.               *)

maxReconnectAttempts == 10

MaxSockets == 12        \* calls of io() in one run

\* the constructor (lines 7-16)
NewEmitter ==
    [socket |-> 0,              \* this.socket: an index of sockets, 0 for null
     intervalId |-> 0,          \* this.intervalId: 0 for null
     isConnected |-> FALSE,
     reconnectAttempts |-> 0,
     sockets |-> <<>>,          \* the sockets made by io(), in order of creation
     intervals |-> 0,           \* setInterval timers that are active
     reconnectTimers |-> 0,     \* setTimeout timers that are pending
     emitted |-> 0]             \* encrypted_message_stream events emitted by the last step

\* stopPeriodicMessaging (lines 107-113)
stopPeriodicMessaging(e) ==
    IF e.intervalId # 0
    THEN [e EXCEPT !.intervals = @ - 1, !.intervalId = 0]
    ELSE e

\* sendMessageStream (lines 116-142): nothing is sent unless connected
sendMessageStream(e) ==
    IF ~e.isConnected \/ e.socket = 0
    THEN e
    ELSE [e EXCEPT !.emitted = @ + 1]

\* variant: startPeriodicMessaging without the call of line 99
startPeriodicMessagingNoSend(e) ==
    LET cleared == IF e.intervalId # 0 THEN [e EXCEPT !.intervals = @ - 1] ELSE e
    IN  [cleared EXCEPT !.intervals = @ + 1, !.intervalId = 1]

\* startPeriodicMessaging (lines 92-104): an old timer is cleared, one
\* stream is sent at once, and the interval timer is set
startPeriodicMessaging(e) ==
    LET cleared == IF e.intervalId # 0 THEN [e EXCEPT !.intervals = @ - 1] ELSE e
        sent == sendMessageStream(cleared)
    IN  [sent EXCEPT !.intervals = @ + 1, !.intervalId = 1]

\* the 'connect' handler (lines 42-49)
connectHandler(e) ==
    startPeriodicMessaging([e EXCEPT !.isConnected = TRUE, !.reconnectAttempts = 0])

\* variant: the 'disconnect' handler without the call of line 62
disconnectedKeepingTimer(e) == [e EXCEPT !.isConnected = FALSE]

\* the 'disconnect' handler up to its test of the reason (lines 59-62)
disconnected(e) == stopPeriodicMessaging([e EXCEPT !.isConnected = FALSE])

\* socket.disconnect() on this.socket: the socket is closed; if it was
\* connected, its 'disconnect' handlers run with reason 'io client
\* disconnect', for which the handler schedules no reconnection (line 64)
socketDisconnect(e) ==
    LET closed == [e EXCEPT !.sockets[e.socket] = "closed"] IN
    IF e.sockets[e.socket] = "connected" THEN disconnected(closed) ELSE closed

\* variant: stop without the socket.disconnect() of line 166
stopLeavingSocket(e) ==
    LET a == stopPeriodicMessaging(e)
    IN  [a EXCEPT !.socket = 0, !.isConnected = FALSE]

\* stop (lines 162-174)
stop(e) ==
    LET a == stopPeriodicMessaging(e)
        b == IF a.socket # 0 THEN [socketDisconnect(a) EXCEPT !.socket = 0] ELSE a
    IN  [b EXCEPT !.isConnected = FALSE]

\* variant: the test of line 146 with > for >=
reconnectAllowedOffByOne(e) == e.reconnectAttempts <= maxReconnectAttempts

\* the test of line 146, negated
reconnectAllowed(e) == e.reconnectAttempts < maxReconnectAttempts

\* variant: scheduleReconnect without the test of line 146
scheduleReconnectUnlimited(e) ==
    [e EXCEPT !.reconnectAttempts = @ + 1, !.reconnectTimers = @ + 1]

\* variant: scheduleReconnect without the setTimeout of lines 155-158
scheduleReconnectNoTimer(e) ==
    IF ~reconnectAllowed(e)
    THEN stop(e)
    ELSE [e EXCEPT !.reconnectAttempts = @ + 1]

\* scheduleReconnect (lines 145-159)
scheduleReconnect(e) ==
    IF ~reconnectAllowed(e)
    THEN stop(e)
    ELSE [e EXCEPT !.reconnectAttempts = @ + 1, !.reconnectTimers = @ + 1]

\* connect (lines 25-38): a new socket, or the catch when io() throws
connect(e, threw) ==
    IF threw
    THEN scheduleReconnect(e)
    ELSE [e EXCEPT !.sockets = Append(@, "connecting"), !.socket = Len(e.sockets) + 1]

\* variant: the 'connect_error' handler without the call of line 54
connectErrorHandlerNoReconnect(e) == [e EXCEPT !.isConnected = FALSE]

\* the 'connect_error' handler (lines 51-55)
connectErrorHandler(e) == scheduleReconnect([e EXCEPT !.isConnected = FALSE])

\* the reasons of a 'disconnect' event that the client did not ask for
Reasons == {"transport close", "io server disconnect", "ping timeout"}

\* the 'disconnect' handler (lines 58-67)
disconnectHandler(e, reason) ==
    IF reason # "io client disconnect"
    THEN scheduleReconnect(disconnected(e))
    ELSE disconnected(e)

\* what the emitter has been through
NewTrace ==
    [started |-> FALSE,         \* start() was called
     stopped |-> FALSE,         \* stop() was called from outside
     exhausted |-> FALSE,       \* scheduleReconnect has given up
     initial |-> 0,             \* the socket that start() made
     failedAttempts |-> 0,      \* failed connection attempts since the last 'connect'
     failedReconnects |-> 0,    \* those of them that a reconnect timer made
     lastEvent |-> "new"]

NoUtilityCall == [fn |-> "none"]

\* the listener's process as started (listener.js lines 220-238): running,
\* no shutdown signal received
NewProcess ==
    [signals |-> 0,             \* SIGTERM and SIGINT received
     closing |-> "no",          \* "server": server.close under way, "io": io.close under way
     graceTimers |-> 0,         \* setTimeout timers of gracefulShutdown pending
     exit |-> "running"]        \* or "exit(0)", "exit(1)"

-----------------------------------------------------------------------------
(* State *)

NoCall == [active |-> FALSE]
NoResponse == [type |-> "none"]

IdleHandler ==
    [pc |-> "idle", socket |-> "", encryptedMessages |-> <<>>,
     i |-> 0, results |-> NewResults(<<>>), call |-> NoCall,
     response |-> NoResponse, concurrent |-> FALSE]

InFlight(h) == handlers[h].pc \notin {"idle", "done"}
Quiescent == \A h \in Handlers : ~InFlight(h)

\* the listener as constructed: no emitter connected (lines 12-35)
InitListener ==
    /\ clock = 0
    /\ store = {}
    /\ processingStats = [totalReceived |-> 0, totalProcessed |-> 0, totalValid |-> 0,
                          totalInvalid |-> 0, totalSaved |-> 0, errors |-> 0]
    /\ connectedEmitters = [s \in {} |-> [messagesReceived |-> 0]]
    /\ handlers = [h \in Handlers |-> IdleHandler]
    /\ faults = 0
    /\ calls = {}
    /\ emitter = NewEmitter
    /\ trace = NewTrace
    /\ call = NoUtilityCall
    /\ process = NewProcess

-----------------------------------------------------------------------------
(* Actions *)

\* io.on('connection') (lines 78-86)
Connection(s) ==
    /\ s \notin DOMAIN connectedEmitters
    /\ connectedEmitters' =
          [t \in DOMAIN connectedEmitters \cup {s} |->
              IF t = s THEN [messagesReceived |-> 0] ELSE connectedEmitters[t]]
    /\ UNCHANGED <<clock, store, processingStats, handlers, faults, calls>>
    /\ UNCHANGED <<emitterVars, process>>

\* socket.on('disconnect') (lines 92-95)
Disconnect(s) ==
    /\ s \in DOMAIN connectedEmitters
    /\ connectedEmitters' = [t \in DOMAIN connectedEmitters \ {s} |-> connectedEmitters[t]]
    /\ UNCHANGED <<clock, store, processingStats, handlers, faults, calls>>
    /\ UNCHANGED <<emitterVars, process>>

\* socket.emit('processing_error', ...) (lines 171-178); the clock readings
\* of the responses (timestamp, processingTime) are left out
ProcessingError(s, error) ==
    [type |-> "processing_error", socket |-> s, error |-> error]

\* variant: handleMessageStream without the emit of line 169
MessageReceivedNotEmitted(s, results) == NoResponse

\* socket.emit('message_received', results) (lines 157-169)
MessageReceived(s, results) ==
    [type |-> "message_received", socket |-> s, results |-> results]

\* handleMessageStream up to the loop (lines 103-125): a payload without a
\* stream to decode ends in the outer catch before any counter is touched
HandleMessageStream(h, s, data) ==
    /\ handlers[h].pc = "idle"
    /\ \A g \in Handlers : g < h => handlers[g].pc # "idle"
    /\ s \in DOMAIN connectedEmitters
    /\ LET others == \E g \in Handlers : InFlight(g)
           mark(hs) == [g \in Handlers |->
                           IF InFlight(g) THEN [hs[g] EXCEPT !.concurrent = TRUE] ELSE hs[g]]
           failed(error) ==
               [IdleHandler EXCEPT !.pc = "done", !.socket = s,
                                   !.response = ProcessingError(s, error)]
       IN  IF data.type = "undefined"
           THEN /\ handlers' = [handlers EXCEPT ![h] =
                                   failed("Cannot read properties of undefined")]
                /\ UNCHANGED <<connectedEmitters, processingStats>>
           ELSE /\ connectedEmitters' =
                      [connectedEmitters EXCEPT ![s].messagesReceived = @ + 1]
                /\ LET parsed == parseMessageStream(data.stream) IN
                   IF ~parsed.ok
                   THEN /\ handlers' = [handlers EXCEPT ![h] = failed(parsed.error)]
                        /\ UNCHANGED processingStats
                   ELSE /\ processingStats' = addReceived(processingStats, parsed.value)
                        /\ handlers' =
                              [mark(handlers) EXCEPT ![h] =
                                  [IdleHandler EXCEPT
                                      !.pc = "loop", !.socket = s,
                                      !.encryptedMessages = parsed.value,
                                      !.results = NewResults(parsed.value),
                                      !.concurrent = others]]
    /\ UNCHANGED <<clock, store, faults, calls>>
    /\ UNCHANGED <<emitterVars, process>>

\* the loop's bookkeeping once the item's promise has settled
ItemSettled(h, outcome) ==
    handlers' = [handlers EXCEPT ![h] =
        [handlers[h] EXCEPT
            !.results = countItem(handlers[h].results, handlers[h].i, outcome),
            !.i = handlers[h].i + 1,
            !.call = NoCall,
            !.pc = "loop"]]

\* the history of the addRecord calls
Logged(h, outcome, aggregated) ==
    calls' = calls \cup {[h |-> h, i |-> handlers[h].i,
                          minuteBucket |-> handlers[h].call.bucketInfo.minuteBucket,
                          outcome |-> outcome, aggregated |-> aggregated]}

\* the synchronous start of addRecord (lines 125-140)
StartAddRecord(h, messageData, timestamp) ==
    [active |-> TRUE,
     timestamp |-> timestamp,
     bucketInfo |-> createMinuteBucket(timestamp),
     record |-> [name |-> messageData.name, origin |-> messageData.origin,
                 destination |-> messageData.destination,
                 timestamp |-> timestamp,
                 recordId |-> <<timestamp, h, handlers[h].i>>],
     route |-> messageData.origin \o "->" \o messageData.destination,
     name |-> messageData.name,
     found |-> FALSE,
     step |-> 0]

\* one turn of the loop (line 129): processEncryptedMessage up to its first
\* await, which is addRecord's findOne.  addRecord reads the time: now is
\* that reading, and time does not run backwards between two readings
ProcessEncryptedMessage(h) ==
    /\ handlers[h].pc = "loop"
    /\ handlers[h].i < Len(handlers[h].encryptedMessages)
    /\ LET v == validateEncryptedMessage(handlers[h].encryptedMessages[handlers[h].i + 1])
       IN  CASE v.kind = "throw" ->
                  /\ ItemSettled(h, processEncryptedMessageCatch(v.error))
                  /\ UNCHANGED clock
             [] v.kind = "return" ->
                  /\ ItemSettled(h, Returned(FALSE, FALSE, v.reason))
                  /\ UNCHANGED clock
             [] v.kind = "save" ->
                  \E now \in clock..MaxClock :
                      /\ clock' = now
                      /\ handlers' = [handlers EXCEPT ![h] =
                            [handlers[h] EXCEPT
                                !.pc = "findOne",
                                !.call = StartAddRecord(h, v.originalMessage, now)]]
    /\ UNCHANGED <<store, processingStats, connectedEmitters, faults, calls>>
    /\ UNCHANGED <<emitterVars, process>>

\* after the loop (lines 151-169): the counts are folded and acknowledged
Finish(h) ==
    /\ handlers[h].pc = "loop"
    /\ handlers[h].i = Len(handlers[h].encryptedMessages)
    /\ processingStats' = foldResults(processingStats, handlers[h].results)
    /\ handlers' = [handlers EXCEPT ![h] =
          [handlers[h] EXCEPT
              !.pc = "done",
              !.response = MessageReceived(handlers[h].socket, handlers[h].results)]]
    /\ UNCHANGED <<clock, store, connectedEmitters, faults, calls>>
    /\ UNCHANGED <<emitterVars, process>>

\* addRecord throws: its catch wraps the error, processEncryptedMessage's
\* catch turns it into a result
AddRecordThrows(h, error, why) ==
    /\ ItemSettled(h, processEncryptedMessageCatch(addRecordCatch(error)))
    /\ Logged(h, why, FALSE)

\* variant: addRecord without the return of line 174
AddRecordReturnsNothing(h, found, aggregated) ==
    /\ ItemSettled(h, processEncryptedMessageCatch("Cannot read properties of undefined"))
    /\ Logged(h, "null", aggregated)

\* addRecord returns result (line 174); processEncryptedMessage reads
\* savedRecord.minuteBucket, which throws on null
AddRecordReturns(h, found, aggregated) ==
    IF found
    THEN /\ ItemSettled(h, Returned(TRUE, TRUE, ""))
         /\ Logged(h, "saved", aggregated)
    ELSE /\ ItemSettled(h, processEncryptedMessageCatch("Cannot read properties of null"))
         /\ Logged(h, "null", aggregated)

\* await this.findOne (line 140)
FindOne(h) ==
    /\ handlers[h].pc = "findOne"
    /\ handlers' = [handlers EXCEPT ![h].pc =
          IF findOne(store, handlers[h].call.bucketInfo.minuteBucket)
          THEN "findOneAndUpdate" ELSE "create"]
    /\ UNCHANGED <<clock, store, processingStats, connectedEmitters, faults, calls>>
    /\ UNCHANGED <<emitterVars, process>>

\* await this.findOneAndUpdate (lines 144-155)
FindOneAndUpdate(h) ==
    /\ handlers[h].pc = "findOneAndUpdate"
    /\ LET c == handlers[h].call
           r == findOneAndUpdate(store, c.bucketInfo.minuteBucket, c.record)
       IN  /\ store' = r.coll
           /\ handlers' = [handlers EXCEPT ![h] =
                 [handlers[h] EXCEPT !.pc = "updateOne",
                                     !.call = [c EXCEPT !.found = r.found, !.step = 1]]]
    /\ UNCHANGED <<clock, processingStats, connectedEmitters, faults, calls>>
    /\ UNCHANGED <<emitterVars, process>>

\* await this.create (lines 158-168)
Create(h) ==
    /\ handlers[h].pc = "create"
    /\ LET c == handlers[h].call
           r == create(store, NewDocument(c.bucketInfo, c.record))
       IN  IF r.ok
           THEN /\ store' = r.coll
                /\ handlers' = [handlers EXCEPT ![h] =
                      [handlers[h] EXCEPT !.pc = "updateOne",
                                          !.call = [c EXCEPT !.found = TRUE, !.step = 1]]]
                /\ UNCHANGED calls
           ELSE /\ AddRecordThrows(h, r.error, "duplicate")
                /\ UNCHANGED store
    /\ UNCHANGED <<clock, processingStats, connectedEmitters, faults>>
    /\ UNCHANGED <<emitterVars, process>>

\* one await of updateAggregatedData (lines 183-228); after the fourth,
\* addRecord returns
UpdateOne(h) ==
    /\ handlers[h].pc = "updateOne"
    /\ LET c == handlers[h].call IN
       /\ store' = updateAggregatedDataStep(store, c.step, c.bucketInfo.minuteBucket,
                                            c.route, c.name)
       /\ IF c.step < AggregationSteps
          THEN /\ handlers' = [handlers EXCEPT ![h] =
                     [handlers[h] EXCEPT !.call = [c EXCEPT !.step = c.step + 1]]]
               /\ UNCHANGED calls
          ELSE AddRecordReturns(h, c.found, TRUE)
    /\ UNCHANGED <<clock, processingStats, connectedEmitters, faults>>
    /\ UNCHANGED <<emitterVars, process>>

\* a storage call of addRecord itself fails (the database is unreachable,
\* the call times out): addRecord throws
PersistenceFault(h) ==
    /\ handlers[h].pc \in {"findOne", "findOneAndUpdate", "create"}
    /\ faults < MaxFaults
    /\ faults' = faults + 1
    /\ AddRecordThrows(h, "storage call failed", "fault")
    /\ UNCHANGED <<clock, store, processingStats, connectedEmitters>>
    /\ UNCHANGED <<emitterVars, process>>

\* an updateOne of updateAggregatedData fails: its catch (lines 229-231) logs
\* the error, the remaining updates are skipped and addRecord returns result
AggregationFault(h) ==
    /\ handlers[h].pc = "updateOne"
    /\ faults < MaxFaults
    /\ faults' = faults + 1
    /\ AddRecordReturns(h, handlers[h].call.found, FALSE)
    /\ UNCHANGED <<clock, store, processingStats, connectedEmitters>>
    /\ UNCHANGED <<emitterVars, process>>

\* the listener with emitters that come and go
NextListener ==
    \/ \E s \in Sockets : Connection(s)
    \/ \E s \in Sockets : Disconnect(s)
    \/ \E h \in Handlers : \E s \in SocketsOf(h), data \in Datas : HandleMessageStream(h, s, data)
    \/ \E h \in Handlers : ProcessEncryptedMessage(h)
    \/ \E h \in Handlers : Finish(h)
    \/ \E h \in Handlers : FindOne(h)
    \/ \E h \in Handlers : FindOneAndUpdate(h)
    \/ \E h \in Handlers : Create(h)
    \/ \E h \in Handlers : UpdateOne(h)
    \/ \E h \in Handlers : PersistenceFault(h)
    \/ \E h \in Handlers : AggregationFault(h)

SpecListener == InitListener /\ [][NextListener]_vars

\* the listener with its emitters connected and no batch received yet
Init ==
    /\ clock = 0
    /\ store = {}
    /\ processingStats = [totalReceived |-> 0, totalProcessed |-> 0, totalValid |-> 0,
                          totalInvalid |-> 0, totalSaved |-> 0, errors |-> 0]
    /\ connectedEmitters = [s \in Sockets |-> [messagesReceived |-> 0]]
    /\ handlers = [h \in Handlers |-> IdleHandler]
    /\ faults = 0
    /\ calls = {}
    /\ emitter = NewEmitter
    /\ trace = NewTrace
    /\ call = NoUtilityCall
    /\ process = NewProcess

\* the ingestion of batches over the connections that are open
Next ==
    \/ \E h \in Handlers : \E s \in SocketsOf(h), data \in Datas : HandleMessageStream(h, s, data)
    \/ \E h \in Handlers : ProcessEncryptedMessage(h)
    \/ \E h \in Handlers : Finish(h)
    \/ \E h \in Handlers : FindOne(h)
    \/ \E h \in Handlers : FindOneAndUpdate(h)
    \/ \E h \in Handlers : Create(h)
    \/ \E h \in Handlers : UpdateOne(h)
    \/ \E h \in Handlers : PersistenceFault(h)
    \/ \E h \in Handlers : AggregationFault(h)

Spec == Init /\ [][Next]_vars

-----------------------------------------------------------------------------
(* Properties of the store under concurrent addRecord calls *)

\* the addRecord calls that targeted a bucket, and those that returned
CallsOn(minuteBucket) == {c \in calls : c.minuteBucket = minuteBucket}
SavedOn(minuteBucket) == {c \in CallsOn(minuteBucket) : c.outcome = "saved"}

\* C1: once a set of N concurrent addRecord calls that all succeeded on one
\* minute bucket has completed (no storage call failed), the counts of the
\* bucket's routes sum to N and so do the counts of its nameFrequency.
C1_CountersSumToN ==
    (Quiescent /\ faults = 0) =>
        \A doc \in store :
            LET N == Cardinality(SavedOn(doc.minuteBucket)) IN
            /\ SumCounts(doc.routes) = N
            /\ SumCounts(doc.nameFrequency) = N

\* C2: when K addRecord calls race for a minute that has no bucket yet (and
\* no storage call fails), every call succeeds and the one bucket of that
\* minute has recordCount = K.
C2_CreationConflictRetried ==
    (Quiescent /\ faults = 0) =>
        /\ \A c \in calls : c.outcome = "saved"
        /\ \A doc \in store : doc.recordCount = Cardinality(CallsOn(doc.minuteBucket))

\* C3: in every reachable state there is at most one bucket document for a
\* minuteBucket key; of the first writers that all saw no bucket, one creates it.
C3_OneBucketPerKey ==
    \A d1, d2 \in store : d1.minuteBucket = d2.minuteBucket => d1 = d2

\* two first writers both saw no bucket; one created it, the other was refused
C3_Witness ==
    \E c \in calls :
        /\ c.outcome = "duplicate"
        /\ Cardinality(Matching(store, c.minuteBucket)) = 1

\* C4: in every reachable state, also between the storage steps of concurrent
\* addRecord calls, every bucket has recordCount = Len(records).
C4_RecordCountIsLength ==
    \A doc \in store : doc.recordCount = Len(doc.records)

\* a bucket that two calls have appended to, while another call is under way
C4_Witness ==
    /\ \E doc \in store : doc.recordCount >= 2 /\ Len(doc.records) >= 2
    /\ \E h \in Handlers : handlers[h].pc = "updateOne"

-----------------------------------------------------------------------------
(* Properties of the ingestion of a batch *)

\* the sum of the values of a function
RECURSIVE SumFunction(_)
SumFunction(f) ==
    IF DOMAIN f = {} THEN 0
    ELSE LET x == CHOOSE y \in DOMAIN f : TRUE
         IN  f[x] + SumFunction([y \in DOMAIN f \ {x} |-> f[y]])

\* the batch was acknowledged / was aborted with a processing_error
Acked(h) == handlers[h].pc = "done" /\ handlers[h].response.type = "message_received"
Aborted(h) == handlers[h].pc = "done" /\ handlers[h].response.type = "processing_error"

\* an envelope that fails decryption, JSON parsing or tag validation
Malformed(encryptedMessage) == validateEncryptedMessage(encryptedMessage).kind # "save"
MalformedAt(h) ==
    {j \in 1..Len(handlers[h].encryptedMessages) : Malformed(handlers[h].encryptedMessages[j])}

\* no storage call failed for this batch, and no other batch overlapped it
StorageAvailable(h) == \A c \in calls : c.h = h => c.outcome # "fault"
Alone(h) == ~handlers[h].concurrent

\* C5: a batch of N envelopes of which exactly one is malformed, processed
\* alone with storage available, is acknowledged with processedCount = N,
\* invalidCount = 1, validCount = N - 1 and no exception escaped an item.
C5_PartialFailureIsolation ==
    \A h \in Handlers :
        (Acked(h) /\ Alone(h) /\ StorageAvailable(h) /\ Cardinality(MalformedAt(h)) = 1) =>
            LET r == handlers[h].response.results
                N == Len(handlers[h].encryptedMessages)
            IN  /\ r.messageCount = N
                /\ r.processedCount = N
                /\ r.invalidCount = 1
                /\ r.validCount = N - 1
                /\ r.errors = <<>>

\* the malformed envelope came first and the one after it was saved
C5_Witness ==
    \E h \in Handlers :
        /\ Acked(h) /\ Alone(h) /\ StorageAvailable(h)
        /\ MalformedAt(h) = {1}
        /\ Len(handlers[h].encryptedMessages) = 2
        /\ handlers[h].response.results.savedCount = 1

\* the payloads whose stream cannot be decoded, and the payload that is none
DecodeFails(data) ==
    \/ data.type = "undefined"
    \/ data.stream.type # "string"
    \/ data.stream.chars = <<>>

\* C6: a batch whose decoding fails is aborted as a whole: a processing_error
\* is emitted and no acknowledgment, and the step leaves every counter of
\* processingStats and the store as they were.
C6_AbortLeavesNoTrace ==
    [][\A h \in Handlers, s \in Sockets, data \in Datas :
          (HandleMessageStream(h, s, data) /\ DecodeFails(data)) =>
              /\ processingStats' = processingStats
              /\ store' = store
              /\ handlers'[h].pc = "done"
              /\ handlers'[h].response.type = "processing_error"]_vars

\* a batch was aborted after another one had been counted and stored
C6_Witness ==
    \E h \in Handlers :
        /\ Aborted(h)
        /\ processingStats.totalReceived > 0
        /\ store # {}

\* C7: an item that passes decryption, parsing and tag validation counts as
\* valid whether or not it could be stored, and only the malformed items
\* count as invalid.
C7_ValidButUnsaved ==
    \A h \in Handlers :
        (Acked(h) /\ Alone(h)) =>
            LET r == handlers[h].response.results
                N == Len(handlers[h].encryptedMessages)
            IN  /\ r.validCount = N - Cardinality(MalformedAt(h))
                /\ r.invalidCount = Cardinality(MalformedAt(h))
                /\ r.savedCount = Cardinality({c \in calls : c.h = h /\ c.outcome = "saved"})

\* C8: the errors list of an acknowledgment has one entry for every item that
\* failed, with the item's index, in input order.
C8_ErrorsListFailedItems ==
    \A h \in Handlers :
        Acked(h) =>
            LET errors == handlers[h].response.results.errors IN
            /\ Len(errors) = Cardinality(MalformedAt(h))
            /\ {errors[k].messageIndex : k \in 1..Len(errors)} = {j - 1 : j \in MalformedAt(h)}
            /\ \A k \in 1..(Len(errors) - 1) : errors[k].messageIndex < errors[k + 1].messageIndex

MessageCountOf(h) == Len(handlers[h].encryptedMessages)
ProcessedCountOf(h) == handlers[h].response.results.processedCount
ValidCountOf(h) == handlers[h].response.results.validCount
InvalidCountOf(h) == handlers[h].response.results.invalidCount
SavedCountOf(h) == handlers[h].response.results.savedCount
ErrorCountOf(h) == Len(handlers[h].response.results.errors)
AckedHandlers == {h \in Handlers : Acked(h)}

\* every batch in flight waits for a storage call: the states that a reader
\* of the counters or the handler of another batch can see
Observable == \A h \in Handlers : handlers[h].pc # "loop"

\* C9: in every state that another batch or a reader of the
\* counters can see, the contribution of a batch to processingStats is all
\* there or not there at all, so totalReceived counts acknowledged batches only.
C9_StatsFoldAtomic ==
    Observable =>
    /\ processingStats.totalReceived = SumFunction([h \in AckedHandlers |-> MessageCountOf(h)])
    /\ processingStats.totalProcessed = SumFunction([h \in AckedHandlers |-> ProcessedCountOf(h)])
    /\ processingStats.totalValid = SumFunction([h \in AckedHandlers |-> ValidCountOf(h)])
    /\ processingStats.totalInvalid = SumFunction([h \in AckedHandlers |-> InvalidCountOf(h)])
    /\ processingStats.totalSaved = SumFunction([h \in AckedHandlers |-> SavedCountOf(h)])
    /\ processingStats.errors = SumFunction([h \in AckedHandlers |-> ErrorCountOf(h)])

RecordCountOf(doc) == doc.recordCount

\* C10: from an empty store and zeroed counters, once every batch received
\* has been processed, the recordCount of all buckets sums to totalSaved.
C10_AggregationConservation ==
    Quiescent => SumFunction([doc \in store |-> RecordCountOf(doc)]) = processingStats.totalSaved

\* two batches are done, one item was refused by the store, two buckets exist
C10_Witness ==
    /\ Quiescent
    /\ Cardinality(store) = 2
    /\ processingStats.totalSaved = 2
    /\ processingStats.totalInvalid > 0


-----------------------------------------------------------------------------
(* The emitter: start() is called once (lines 204-212); after that the     *)
(* sockets raise their events, the timers fire and stop() may be called.   *)

listenerVars ==
    <<clock, store, processingStats, connectedEmitters, handlers, faults, calls, process>>

\* the record at the start of a step: nothing emitted yet
Step == [emitter EXCEPT !.emitted = 0]

SocketIn(s, status) == s \in 1..Len(emitter.sockets) /\ emitter.sockets[s] = status

\* start() (lines 19-22)
Start(threw) ==
    /\ ~trace.started
    /\ emitter' = connect(Step, threw)
    /\ trace' = [trace EXCEPT !.started = TRUE,
                              !.initial = IF threw THEN 0 ELSE Len(emitter.sockets) + 1,
                              !.failedAttempts = IF threw THEN 1 ELSE 0,
                              !.lastEvent = "start"]
    /\ UNCHANGED <<listenerVars, call>>

\* the handshake of socket s succeeds: 'connect'
SocketConnect(s) ==
    /\ SocketIn(s, "connecting")
    /\ emitter' = connectHandler([Step EXCEPT !.sockets[s] = "connected"])
    /\ trace' = [trace EXCEPT !.failedAttempts = 0,
                              !.failedReconnects = 0,
                              !.lastEvent = "connect"]
    /\ UNCHANGED <<listenerVars, call>>

\* the handshake of socket s fails or times out: 'connect_error'
SocketConnectError(s) ==
    /\ SocketIn(s, "connecting")
    /\ emitter' = connectErrorHandler([Step EXCEPT !.sockets[s] = "closed"])
    /\ trace' = [trace EXCEPT !.failedAttempts = @ + 1,
                              !.failedReconnects = IF s = trace.initial THEN @ ELSE @ + 1,
                              !.exhausted = @ \/ ~reconnectAllowed(emitter),
                              !.lastEvent = "connect_error"]
    /\ UNCHANGED <<listenerVars, call>>

\* the transport of socket s fails or the peer closes it: 'disconnect'
SocketDisconnect(s, reason) ==
    /\ SocketIn(s, "connected")
    /\ emitter' = disconnectHandler([Step EXCEPT !.sockets[s] = "closed"], reason)
    /\ trace' = [trace EXCEPT !.exhausted = @ \/ ~reconnectAllowed(emitter),
                              !.lastEvent = "disconnect"]
    /\ UNCHANGED <<listenerVars, call>>

\* the setInterval timer fires (lines 101-103)
IntervalFires ==
    /\ emitter.intervals > 0
    /\ emitter' = sendMessageStream(Step)
    /\ trace' = [trace EXCEPT !.lastEvent = "interval"]
    /\ UNCHANGED <<listenerVars, call>>

\* a setTimeout timer of scheduleReconnect fires (lines 155-158)
ReconnectTimerFires(threw) ==
    /\ emitter.reconnectTimers > 0
    /\ threw \/ Len(emitter.sockets) < MaxSockets
    /\ LET fired == [Step EXCEPT !.reconnectTimers = @ - 1] IN
       /\ emitter' = connect(fired, threw)
       /\ trace' = IF threw
                   THEN [trace EXCEPT !.failedAttempts = @ + 1,
                                      !.failedReconnects = @ + 1,
                                      !.exhausted = @ \/ ~reconnectAllowed(fired),
                                      !.lastEvent = "reconnect"]
                   ELSE [trace EXCEPT !.lastEvent = "reconnect"]
    /\ UNCHANGED <<listenerVars, call>>

\* stop() is called from outside
Stop ==
    /\ emitter' = stop(Step)
    /\ trace' = [trace EXCEPT !.stopped = TRUE, !.lastEvent = "stop"]
    /\ UNCHANGED <<listenerVars, call>>

NextEmitter ==
    \/ \E threw \in BOOLEAN : Start(threw)
    \/ \E s \in 1..MaxSockets : SocketConnect(s)
    \/ \E s \in 1..MaxSockets : SocketConnectError(s)
    \/ \E s \in 1..MaxSockets : \E reason \in Reasons : SocketDisconnect(s, reason)
    \/ IntervalFires
    \/ \E threw \in BOOLEAN : ReconnectTimerFires(threw)
    \/ Stop

SpecEmitter == Init /\ [][NextEmitter]_vars

-----------------------------------------------------------------------------
(* Properties of the emitter *)

\* no socket of the emitter is being connected or is connected
NoLiveSocket == \A s \in 1..Len(emitter.sockets) : emitter.sockets[s] = "closed"

\* the Stopped state with nothing left that could take the emitter out of it
StoppedForGood ==
    /\ ~emitter.isConnected
    /\ emitter.socket = 0
    /\ NoLiveSocket
    /\ emitter.intervals = 0
    /\ emitter.reconnectTimers = 0

\* C11: after maxReconnectAttempts consecutive failed connection attempts
\* with no successful connect in between, the producer is Stopped and no
\* reconnect timer or periodic-send timer is pending.
C11_StoppedAfterMaxFailedAttempts ==
    trace.failedAttempts >= maxReconnectAttempts => StoppedForGood

\* C11 with the attempts counted as the code counts them: the attempt that
\* start() makes is not a reconnection.  After maxReconnectAttempts
\* consecutive failed reconnections the producer has given up, it is Stopped
\* with no timer pending from then on, and reconnectAttempts never exceeds
\* maxReconnectAttempts.
C11_StoppedAfterMaxFailedReconnects ==
    /\ emitter.reconnectAttempts <= maxReconnectAttempts
    /\ trace.failedReconnects <= maxReconnectAttempts
    /\ trace.failedReconnects = maxReconnectAttempts => trace.exhausted
    /\ trace.exhausted => StoppedForGood

\* the producer has given up after the initial attempt and ten reconnections
C11_Witness ==
    /\ trace.exhausted
    /\ trace.failedReconnects = maxReconnectAttempts
    /\ trace.failedAttempts = maxReconnectAttempts + 1
    /\ StoppedForGood

\* C12: once stop() has been called from outside, in whatever state, all
\* timers are cancelled, the transport is closed, and the producer stays
\* Stopped: no connection attempt, no timer, no connection, no transmission.
C12_StopIsTerminal ==
    trace.stopped => StoppedForGood /\ emitter.emitted = 0

\* C13: the step of a successful handshake leaves the producer connected
\* with reconnectAttempts = 0, exactly one periodic-send timer active and
\* one batch transmitted in that step.
C13_ConnectedSendsAtOnce ==
    trace.lastEvent = "connect" =>
        /\ emitter.isConnected
        /\ emitter.reconnectAttempts = 0
        /\ emitter.intervals = 1
        /\ emitter.intervalId # 0
        /\ emitter.emitted = 1

\* a handshake that succeeded after failed attempts
C13_Witness ==
    /\ trace.lastEvent = "connect"
    /\ Len(emitter.sockets) >= 3
    /\ emitter.sockets[emitter.socket] = "connected"

\* C14: the periodic-send timer is active only while the producer is
\* connected, it is cancelled in the step that leaves Connected, and a batch
\* is transmitted only by a connected producer.
C14_TimerOnlyWhileConnected ==
    [][/\ (emitter.isConnected /\ ~emitter'.isConnected) => emitter'.intervals = 0
       /\ emitter'.intervals > 0 => emitter'.isConnected /\ emitter'.intervalId # 0
       /\ emitter'.emitted > 0 =>
             /\ emitter'.isConnected
             /\ emitter'.socket # 0
             /\ emitter'.sockets[emitter'.socket] = "connected"]_vars

\* the producer has lost a connection on which it had sent, after a reconnection
C14_Witness ==
    /\ trace.lastEvent = "disconnect"
    /\ Len(emitter.sockets) >= 2
    /\ ~emitter.isConnected
    /\ emitter.intervals = 0
    /\ emitter.reconnectTimers = 1

-----------------------------------------------------------------------------
(* The utility functions called on their own (src/utility/messageGenerator.js): *)
(* call holds the call that was made, its arguments and its result.        *)

MaxBatchLen == 3            \* envelopes in a batch given to the codec
MaxStreamLen == 3           \* tokens in a stream given to parseMessageStream
MaxGenerationFailures == 2  \* messages of a batch whose generation may fail

BoundedSeq(S, n) == UNION {[1..k -> S] : k \in 0..n}

\* strings that are not empty and hold no '|': a run of characters, white
\* space, white space before a run
DelimiterFree == {<<"a">>, <<"b">>, <<" ">>, <<" ", "a">>}

\* the values a stream can have that are no string
NotStrings == {[type |-> "undefined"], [type |-> "null"], [type |-> "number"], [type |-> "object"]}

StreamInputs ==
    {StringOf(chars) : chars \in BoundedSeq({"|", " ", "a", "b"}, MaxStreamLen)} \cup NotStrings

\* createMessageStream followed by parseMessageStream (test 2, lines 300-307)
CallRoundTrip(xs) ==
    /\ call = NoUtilityCall
    /\ call' = [fn |-> "roundTrip", xs |-> xs,
                result |-> parseMessageStream(StringOf(createMessageStream(xs)))]
    /\ UNCHANGED <<listenerVars, emitter, trace>>

CallParseMessageStream(messageStream) ==
    /\ call = NoUtilityCall
    /\ call' = [fn |-> "parseMessageStream", messageStream |-> messageStream,
                result |-> parseMessageStream(messageStream)]
    /\ UNCHANGED <<listenerVars, emitter, trace>>

\* encrypt followed by decrypt (test 1, lines 243-252); iv is what
\* crypto.randomBytes gave
CallEncryptDecrypt(text, iv) ==
    /\ call = NoUtilityCall
    /\ call' = [fn |-> "encryptDecrypt", text |-> text, iv |-> iv,
                encrypted |-> encrypt(text, iv),
                result |-> decrypt(encrypt(text, iv))]
    /\ UNCHANGED <<listenerVars, emitter, trace>>

\* an object given by its entries [key, value] in insertion order
ObjectKeys(entries) == [i \in 1..Len(entries) |-> entries[i].key]
ValueOf(entries, key) == entries[CHOOSE i \in 1..Len(entries) : entries[i].key = key].value

\* the place of a key in the order of strings
KeyRank(key) == CHOOSE i \in 1..Len(KeysSorted) : KeysSorted[i] = key

\* Array.prototype.sort() on keys, which are distinct
SortKeys(keys) ==
    LET K == {keys[i] : i \in 1..Len(keys)} IN
    [n \in 1..Len(keys) |->
        CHOOSE k \in K : Cardinality({j \in K : KeyRank(j) < KeyRank(k)}) = n - 1]

\* createHash (lines 200-213) on an object given by its entries
createHashEntries(entries) ==
    LET sortedKeys == SortKeys(ObjectKeys(entries))
        pairs == [i \in 1..Len(sortedKeys) |->
                     <<sortedKeys[i] \o ":" \o ValueOf(entries, sortedKeys[i])>>]
    IN  sha256(Concat(Join(pairs, "|")))

\* objects with one or two of the fields name and origin, in either order
HashValues == {"x", "y", "x|origin:y"}
HashInputs ==
    {<<[key |-> k, value |-> v]>> : k \in {"name", "origin"}, v \in HashValues}
    \cup {<<[key |-> k1, value |-> v1], [key |-> k2, value |-> v2]>> :
              k1 \in {"name"}, k2 \in {"origin"}, v1 \in HashValues, v2 \in HashValues}
    \cup {<<[key |-> k1, value |-> v1], [key |-> k2, value |-> v2]>> :
              k1 \in {"origin"}, k2 \in {"name"}, v1 \in HashValues, v2 \in HashValues}

\* createHash on two objects (test 2, lines 254-266)
CallCreateHash(a, b) ==
    /\ call = NoUtilityCall
    /\ call' = [fn |-> "createHash", a |-> a, b |-> b,
                hashA |-> createHashEntries(a), hashB |-> createHashEntries(b)]
    /\ UNCHANGED <<listenerVars, emitter, trace>>

\* the values a field of a message is changed to
FieldValues == Names \cup Origins \cup Destinations \cup SecretKeys \cup {"Delhi|name:Asha"}

\* a message as createMessageWithHash tagged it, with one field set anew,
\* and messages that have no tag
ValidationInputs ==
    {[createMessageWithHash(o) EXCEPT ![f] = v] :
        o \in OriginalMessages, f \in {"name", "origin", "destination", "secret_key"},
        v \in FieldValues}
    \cup OriginalMessages

\* validateSecretKey (test 3, lines 268-280)
CallValidateSecretKey(message) ==
    /\ call = NoUtilityCall
    /\ call' = [fn |-> "validateSecretKey", message |-> message,
                result |-> validateSecretKey(message)]
    /\ UNCHANGED <<listenerVars, emitter, trace>>

MinMessages == 49
MaxMessages == 499

\* Math.floor(Math.random() * (499 - 49 + 1)) (line 56)
RandomCounts == 0..(MaxMessages - MinMessages)

\* generateMessageBatch (lines 55-76): messageCount turns of the loop, of
\* which failed threw and were caught (lines 70-72); the batch is as long
\* as the turns that pushed an envelope
generateMessageBatch(random, failed) ==
    LET messageCount == random + MinMessages
    IN  [messageCount |-> messageCount, length |-> messageCount - failed]

\* generateMessageBatch; all turns fail when loadData throws
CallGenerateMessageBatch(random, failed) ==
    /\ call = NoUtilityCall
    /\ call' = [fn |-> "generateMessageBatch", random |-> random, failed |-> failed,
                result |-> generateMessageBatch(random, failed)]
    /\ UNCHANGED <<listenerVars, emitter, trace>>

NextUtility ==
    \/ \E xs \in BoundedSeq(DelimiterFree, MaxBatchLen) : CallRoundTrip(xs)
    \/ \E messageStream \in StreamInputs : CallParseMessageStream(messageStream)
    \/ \E text \in Plaintexts \cup {""}, iv \in IVs : CallEncryptDecrypt(text, iv)
    \/ \E a \in HashInputs, b \in HashInputs : CallCreateHash(a, b)
    \/ \E message \in ValidationInputs : CallValidateSecretKey(message)
    \/ \E random \in RandomCounts :
           \E failed \in (0..MaxGenerationFailures) \cup {random + MinMessages} :
               CallGenerateMessageBatch(random, failed)

SpecUtility == Init /\ [][NextUtility]_vars

-----------------------------------------------------------------------------
(* Properties of the utility functions *)

\* C15: for every sequence xs of non-empty strings without '|',
\* parseMessageStream(xs.join('|')) returns exactly xs.
C15_RoundTrip ==
    call.fn = "roundTrip" => call.result.ok /\ call.result.value = call.xs

\* a string of white space only (the empty string too)
Blank(piece) == \A i \in 1..Len(piece) : piece[i] = " "

\* C15 for the strings the filter of parseMessageStream keeps: for every
\* sequence xs that is not empty, of strings without '|' that hold a
\* character other than white space, parseMessageStream(xs.join('|'))
\* returns exactly xs.
C15_RoundTripNonBlank ==
    call.fn = "roundTrip" =>
        ((call.xs # <<>> /\ \A i \in 1..Len(call.xs) : ~Blank(call.xs[i])) =>
            call.result.ok /\ call.result.value = call.xs)

\* a batch of three envelopes, one with leading white space, came back
C15_Witness ==
    /\ call.fn = "roundTrip"
    /\ call.xs = << <<"a">>, <<" ", "a">>, <<"b">> >>
    /\ call.result.ok
    /\ call.result.value = call.xs

\* the places of the delimiters of a string, with both ends of the string
Boundaries(chars) == {0, Len(chars) + 1} \cup {i \in 1..Len(chars) : chars[i] = "|"}
NthBoundary(chars, n) ==
    CHOOSE b \in Boundaries(chars) : Cardinality({c \in Boundaries(chars) : c < b}) = n - 1

\* the substrings between the delimiters, in order
Pieces(chars) ==
    [n \in 1..(Cardinality(Boundaries(chars)) - 1) |->
        SubSeq(chars, NthBoundary(chars, n) + 1, NthBoundary(chars, n + 1) - 1)]

\* C16: parseMessageStream fails on the empty string and on what is no
\* string; on any other string it succeeds and returns the substrings
\* between the delimiters that are not blank, in their order.
C16_ParseMessageStream ==
    call.fn = "parseMessageStream" =>
        IF call.messageStream.type # "string" \/ call.messageStream.chars = <<>>
        THEN ~call.result.ok
        ELSE /\ call.result.ok
             /\ call.result.value =
                    SelectSeq(Pieces(call.messageStream.chars), LAMBDA piece : ~Blank(piece))

\* a blank substring was dropped and the one after it kept
C16_Witness ==
    /\ call.fn = "parseMessageStream"
    /\ call.messageStream = StringOf(<<" ", "|", "a">>)
    /\ call.result.ok
    /\ call.result.value = << <<"a">> >>

FieldsOf(entries) == {<<entries[i].key, entries[i].value>> : i \in 1..Len(entries)}

\* C18: createHash depends on the field mapping only: two objects get the
\* same hash if they have the same key/value pairs, in whatever order they
\* were inserted, and different hashes if their pairs differ.
C18_HashOfFieldMapping ==
    call.fn = "createHash" =>
        (FieldsOf(call.a) = FieldsOf(call.b) <=> call.hashA = call.hashB)

C20_BatchSizeBound ==
    call.fn = "generateMessageBatch" =>
        /\ call.result.length >= MinMessages
        /\ call.result.length <= MaxMessages

-----------------------------------------------------------------------------
(* Properties of the ingestion, end to end *)

\* `${origin}->${destination}` of a stored record
RouteOf(record) == record.origin \o "->" \o record.destination

\* the records of a bucket that count for a route, for a name
RecordsWithRoute(doc, route) ==
    Cardinality({i \in 1..Len(doc.records) : RouteOf(doc.records[i]) = route})
RecordsWithName(doc, name) ==
    Cardinality({i \in 1..Len(doc.records) : doc.records[i].name = name})

\* the count a counter array has for a key, 0 when it has no entry
CountFor(array, f, v) ==
    IF FirstIndex(array, f, v) = 0 THEN 0 ELSE array[FirstIndex(array, f, v)].count

\* the places (document, index) where handler h has stored a record
StoredBy(h) ==
    {p \in UNION {{<<doc, i>> : i \in 1..Len(doc.records)} : doc \in store} :
        p[1].records[p[2]].recordId[2] = h}

\* the batch of handler h is one envelope, and that one is validly tagged
SingleValid(h) ==
    /\ Len(handlers[h].encryptedMessages) = 1
    /\ MalformedAt(h) = {}

\* no batch overlapped another one and no storage call has failed
Undisturbed == faults = 0 /\ \A g \in Handlers : Alone(g)

\* C21: a batch of one validly tagged envelope, processed with storage
\* available and nothing else going on, is acknowledged with processedCount
\* 1, validCount 1, savedCount 1, invalidCount 0; the bucket of the minute
\* holds the record without the tag, and its routes counter for the route
\* has gone up by one with the record (it is 1 in a new bucket).
C21_EndToEnd ==
    \A h \in Handlers :
        (Acked(h) /\ SingleValid(h) /\ Quiescent /\ Undisturbed) =>
            LET r == handlers[h].response.results
                m == validateEncryptedMessage(handlers[h].encryptedMessages[1]).originalMessage
            IN  /\ r.messageCount = 1
                /\ r.processedCount = 1
                /\ r.validCount = 1
                /\ r.savedCount = 1
                /\ r.invalidCount = 0
                /\ r.errors = <<>>
                /\ Cardinality(StoredBy(h)) = 1
                /\ \A p \in StoredBy(h) :
                      LET doc == p[1]
                          record == doc.records[p[2]]
                      IN  /\ DOMAIN record =
                                {"name", "origin", "destination", "timestamp", "recordId"}
                          /\ record.name = m.name
                          /\ record.origin = m.origin
                          /\ record.destination = m.destination
                          /\ doc.minuteBucket = createMinuteBucket(record.timestamp).minuteBucket
                          /\ CountFor(doc.routes, "route", RouteOf(m)) =
                                RecordsWithRoute(doc, RouteOf(m))
                          /\ CountFor(doc.routes, "route", RouteOf(m)) >= 1
                          /\ doc.recordCount = 1 =>
                                doc.routes = <<[route |-> RouteOf(m), count |-> 1]>>

\* the second single-item batch found the bucket and the route of the first
C21_Witness ==
    /\ Quiescent /\ Undisturbed
    /\ Acked(1) /\ SingleValid(1)
    /\ Acked(2) /\ SingleValid(2)
    /\ \E doc \in store :
          /\ doc.recordCount = 2
          /\ doc.routes = <<[route |-> "Mumbai->Delhi", count |-> 2]>>

\* C22: once all the batches received have completed, however their steps
\* were interleaved, every counter of processingStats is the sum of the
\* values that the acknowledgments reported; no update is lost.
C22_NoLostUpdate ==
    Quiescent =>
        /\ processingStats.totalReceived = SumFunction([h \in AckedHandlers |-> MessageCountOf(h)])
        /\ processingStats.totalProcessed = SumFunction([h \in AckedHandlers |-> ProcessedCountOf(h)])
        /\ processingStats.totalValid = SumFunction([h \in AckedHandlers |-> ValidCountOf(h)])
        /\ processingStats.totalInvalid = SumFunction([h \in AckedHandlers |-> InvalidCountOf(h)])
        /\ processingStats.totalSaved = SumFunction([h \in AckedHandlers |-> SavedCountOf(h)])
        /\ processingStats.errors = SumFunction([h \in AckedHandlers |-> ErrorCountOf(h)])

\* two batches of two connections overlapped and both were acknowledged
C22_Witness ==
    /\ Quiescent
    /\ Acked(1) /\ Acked(2)
    /\ handlers[1].concurrent /\ handlers[2].concurrent
    /\ handlers[1].socket # handlers[2].socket
    /\ ProcessedCountOf(1) = 2 /\ ProcessedCountOf(2) = 2
    /\ processingStats.totalProcessed = 4
    /\ processingStats.totalInvalid >= 1

-----------------------------------------------------------------------------
(* The order of the items of a batch: the ingestion of batches that hold   *)
(* more than one valid envelope.                                           *)

\* the first batch to arrive holds two valid envelopes, the second one
OrderedBatches(h) == IF h = 1 THEN { <<EnvGood1, EnvGood2>> } ELSE { <<EnvGood2>> }

OrderedDatas(h) ==
    {[type |-> "object", stream |-> StringOf(createMessageStream(b))] : b \in OrderedBatches(h)}

NextInOrder ==
    \/ \E h \in Handlers : \E s \in SocketsOf(h), data \in OrderedDatas(h) :
           HandleMessageStream(h, s, data)
    \/ \E h \in Handlers : ProcessEncryptedMessage(h)
    \/ \E h \in Handlers : Finish(h)
    \/ \E h \in Handlers : FindOne(h)
    \/ \E h \in Handlers : FindOneAndUpdate(h)
    \/ \E h \in Handlers : Create(h)
    \/ \E h \in Handlers : UpdateOne(h)
    \/ \E h \in Handlers : PersistenceFault(h)
    \/ \E h \in Handlers : AggregationFault(h)

SpecInOrder == Init /\ [][NextInOrder]_vars

\* the index in its batch of the item a stored record came from
ItemOf(p) == p[1].records[p[2]].recordId[3]

\* C23: the items of a batch are processed one after the other in input
\* order: a record of an item is stored only when the items before it have
\* completed, so the records of a batch are in the store in envelope order
\* (by position within a bucket, by minute across buckets), while the items
\* of another batch may come between them.
C23_SequentialInOrder ==
    \A h \in Handlers :
        /\ handlers[h].call.active => handlers[h].pc \notin {"idle", "loop", "done"}
        /\ \A p \in StoredBy(h) :
              \/ ItemOf(p) < handlers[h].i
              \/ ItemOf(p) = handlers[h].i /\ handlers[h].call.active
        /\ \A p, q \in StoredBy(h) :
              ItemOf(p) < ItemOf(q) =>
                  /\ p[1].records[p[2]].timestamp <= q[1].records[q[2]].timestamp
                  /\ p[1].minuteBucket <= q[1].minuteBucket
                  /\ p[1] = q[1] => p[2] < q[2]

\* a record of another batch lies between the two records of a batch
C23_Witness ==
    \E doc \in store :
        /\ Len(doc.records) = 3
        /\ doc.records[1].recordId[2] = 1 /\ doc.records[1].recordId[3] = 0
        /\ doc.records[2].recordId[2] = 2
        /\ doc.records[3].recordId[2] = 1 /\ doc.records[3].recordId[3] = 1

-----------------------------------------------------------------------------
(* The ingestion when every storage call returns: the promise of a storage *)
(* call settles, and the event loop then runs the handler that awaits it.  *)

\* a step of invocation h that is no failure of a storage call
HandlerStep(h) ==
    \/ ProcessEncryptedMessage(h)
    \/ Finish(h)
    \/ FindOne(h)
    \/ FindOneAndUpdate(h)
    \/ Create(h)
    \/ UpdateOne(h)

\* payloads of one envelope or two, and payloads that cannot be decoded
LiveDatas ==
    {[type |-> "object", stream |-> StringOf(createMessageStream(b))] :
         b \in { <<EnvGood1>>, <<EnvBadFormat, EnvGood1>> }}
    \cup {[type |-> "object", stream |-> StringOf(<<>>)], Undefined}

NextLive ==
    \/ \E h \in Handlers : \E s \in SocketsOf(h), data \in LiveDatas :
           HandleMessageStream(h, s, data)
    \/ \E h \in Handlers : ProcessEncryptedMessage(h)
    \/ \E h \in Handlers : Finish(h)
    \/ \E h \in Handlers : FindOne(h)
    \/ \E h \in Handlers : FindOneAndUpdate(h)
    \/ \E h \in Handlers : Create(h)
    \/ \E h \in Handlers : UpdateOne(h)
    \/ \E h \in Handlers : PersistenceFault(h)
    \/ \E h \in Handlers : AggregationFault(h)

\* weak fairness of HandlerStep(h): a step of h that stays possible is taken.
\* A step of h is possible exactly while h is in flight, which stands here
\* for ENABLED <<HandlerStep(h)>>_vars
WeakFair(h) == []<>(~InFlight(h)) \/ []<><<HandlerStep(h)>>_vars

SpecLive == Init /\ [][NextLive]_vars /\ \A h \in Handlers : WeakFair(h)

\* what an acknowledgment carries (the readings of the clock left out)
AckFields == {"messageCount", "processedCount", "validCount", "invalidCount",
              "savedCount", "errors"}

\* C24: a batch event gets exactly one response, on its own connection: a
\* message_received acknowledgment with the counts or a processing_error.
\* A response is there exactly when the invocation has returned, it is never
\* followed by another one, and every invocation returns in the end.
C24_ExactlyOneResponse ==
    /\ [](\A h \in Handlers :
            /\ handlers[h].pc = "done" <=> handlers[h].response # NoResponse
            /\ handlers[h].pc = "done" =>
                  /\ handlers[h].response.socket = handlers[h].socket
                  /\ handlers[h].response.type \in {"message_received", "processing_error"}
                  /\ handlers[h].response.type = "message_received" =>
                        AckFields \subseteq DOMAIN handlers[h].response.results)
    /\ [][\A h \in Handlers :
            handlers[h].response # NoResponse => handlers'[h].response = handlers[h].response]_vars
    /\ \A h \in Handlers : (handlers[h].pc # "idle") ~> (handlers[h].pc = "done")

\* one batch was acknowledged and the other one aborted, each on its connection
C24_Witness ==
    /\ Acked(1) /\ handlers[1].response.socket = "s1"
    /\ Aborted(2) /\ handlers[2].response.socket = "s2"

-----------------------------------------------------------------------------
(* Properties of the emitter's reconnection *)

\* a reconnection was scheduled in this step: the counter is one higher,
\* one more timer is pending, and the producer is not connected
ReconnectScheduled ==
    /\ emitter'.reconnectAttempts = emitter.reconnectAttempts + 1
    /\ emitter'.reconnectTimers = emitter.reconnectTimers + 1
    /\ ~emitter'.isConnected
    /\ emitter'.intervals = 0

\* nothing was scheduled in this step
NothingScheduled ==
    /\ emitter'.reconnectAttempts = emitter.reconnectAttempts
    /\ emitter'.reconnectTimers = emitter.reconnectTimers

\* the timer of a reconnection fires and connect() makes a new socket
ConnectAttemptedAgain ==
    /\ emitter'.reconnectTimers = emitter.reconnectTimers - 1
    /\ Len(emitter'.sockets) = Len(emitter.sockets) + 1
    /\ emitter'.socket = Len(emitter'.sockets)
    /\ emitter'.sockets[emitter'.socket] = "connecting"

\* C25: every connect_error and every disconnect that the client did not
\* ask for schedules a reconnection: reconnectAttempts goes up by exactly 1
\* and one reconnect timer is started, after which connect() is attempted
\* again; a disconnect that stop() asked for schedules nothing and leaves
\* reconnectAttempts as it is.
C25_FailureSchedulesReconnect ==
    [][/\ \A s \in 1..MaxSockets : SocketConnectError(s) => ReconnectScheduled
       /\ \A s \in 1..MaxSockets : \A reason \in Reasons :
              SocketDisconnect(s, reason) => ReconnectScheduled
       /\ ReconnectTimerFires(FALSE) => ConnectAttemptedAgain
       /\ Stop => NothingScheduled]_vars

\* C25 with the limit of scheduleReconnect: a connect_error or a disconnect
\* that the client did not ask for, while reconnectAttempts is below
\* maxReconnectAttempts, schedules a reconnection as above; at the limit the
\* producer stops instead, the counter stays and no timer is started.  A
\* disconnect that stop() asked for schedules nothing.
C25_FailureSchedulesReconnectBelowLimit ==
    [][/\ \A s \in 1..MaxSockets :
              SocketConnectError(s) =>
                  IF emitter.reconnectAttempts < maxReconnectAttempts
                  THEN ReconnectScheduled
                  ELSE NothingScheduled /\ emitter'.socket = 0 /\ ~emitter'.isConnected
       /\ \A s \in 1..MaxSockets : \A reason \in Reasons :
              SocketDisconnect(s, reason) =>
                  IF emitter.reconnectAttempts < maxReconnectAttempts
                  THEN ReconnectScheduled
                  ELSE NothingScheduled /\ emitter'.socket = 0 /\ ~emitter'.isConnected
       /\ ReconnectTimerFires(FALSE) => ConnectAttemptedAgain
       /\ Stop => NothingScheduled]_vars

\* the third attempt in a row has failed and the next one is scheduled
C25_Witness ==
    /\ trace.lastEvent = "connect_error"
    /\ emitter.reconnectAttempts = 3
    /\ emitter.reconnectTimers = 1
    /\ ~trace.stopped

-----------------------------------------------------------------------------
(* The shutdown of the listener (listener.js lines 240-265).  server.close *)
(* stops the server from accepting connections and calls back once every   *)
(* connection has ended; the handlers of the batches run on meanwhile, and *)
(* process.exit ends them wherever they are.                               *)

MaxSignals == 2         \* shutdown signals in one run

Running == process.exit = "running"

\* SIGTERM or SIGINT: gracefulShutdown (lines 241-261) calls server.close
\* and sets the timer of the forced exit
ShutdownSignal ==
    /\ Running
    /\ process.signals < MaxSignals
    /\ process' = [process EXCEPT !.signals = @ + 1,
                                  !.closing = IF @ = "no" THEN "server" ELSE @,
                                  !.graceTimers = @ + 1]
    /\ UNCHANGED <<clock, store, processingStats, connectedEmitters, handlers, faults, calls>>
    /\ UNCHANGED emitterVars

\* the callback of server.close (lines 244-247): every connection has
\* ended; io.close is called
HttpServerClosed ==
    /\ Running
    /\ process.closing = "server"
    /\ DOMAIN connectedEmitters = {}
    /\ process' = [process EXCEPT !.closing = "io"]
    /\ UNCHANGED <<clock, store, processingStats, connectedEmitters, handlers, faults, calls>>
    /\ UNCHANGED emitterVars

\* the callback of io.close (lines 247-254): process.exit(0)
SocketIOClosed ==
    /\ Running
    /\ process.closing = "io"
    /\ process' = [process EXCEPT !.exit = "exit(0)"]
    /\ UNCHANGED <<clock, store, processingStats, connectedEmitters, handlers, faults, calls>>
    /\ UNCHANGED emitterVars

\* the timer of gracefulShutdown fires after 10 s (lines 257-260): the
\* error is logged, process.exit(1)
GraceElapses ==
    /\ Running
    /\ process.graceTimers > 0
    /\ process' = [process EXCEPT !.exit = "exit(1)", !.graceTimers = @ - 1]
    /\ UNCHANGED <<clock, store, processingStats, connectedEmitters, handlers, faults, calls>>
    /\ UNCHANGED emitterVars

\* the batch that is followed through the shutdown: the first to arrive
ShutdownHandlers == {1}

\* the listener while its process runs: emitters disconnect, batches
\* arrive on the connections that are open, and the process may be told to
\* shut down
NextShutdown ==
    \/ ShutdownSignal
    \/ HttpServerClosed
    \/ SocketIOClosed
    \/ GraceElapses
    \/ Running /\ \E s \in Sockets : Disconnect(s)
    \/ Running /\ \E h \in ShutdownHandlers : \E s \in SocketsOf(h), data \in OrderedDatas(h) :
                      HandleMessageStream(h, s, data)
    \/ Running /\ \E h \in ShutdownHandlers : ProcessEncryptedMessage(h)
    \/ Running /\ \E h \in ShutdownHandlers : Finish(h)
    \/ Running /\ \E h \in ShutdownHandlers : FindOne(h)
    \/ Running /\ \E h \in ShutdownHandlers : FindOneAndUpdate(h)
    \/ Running /\ \E h \in ShutdownHandlers : Create(h)
    \/ Running /\ \E h \in ShutdownHandlers : UpdateOne(h)
    \/ Running /\ \E h \in ShutdownHandlers : PersistenceFault(h)
    \/ Running /\ \E h \in ShutdownHandlers : AggregationFault(h)

\* a timer that is set fires
SpecShutdown == Init /\ [][NextShutdown]_vars /\ WF_vars(GraceElapses)

\* C26: after a shutdown signal the batches in flight are let finish, for
\* no longer than the grace period, before the process ends: the process
\* exits with 0 only when no batch is in flight, it exits with 1 only
\* through the timer of the grace period, and it always ends.
C26_GracefulShutdown ==
    /\ [](process.exit = "exit(0)" => Quiescent)
    /\ [][(Running /\ process'.exit = "exit(1)") => process.graceTimers > 0]_vars
    /\ [][(Running /\ process'.exit = "exit(0)") => process.closing = "io"]_vars
    /\ (process.signals > 0) ~> ~Running

-----------------------------------------------------------------------------
(* Properties of the counters *)

\* the counters of processingStats (lines 24-31)
Counters == {"totalReceived", "totalProcessed", "totalValid", "totalInvalid",
             "totalSaved", "errors"}

\* C27: no step of the consumer makes a counter of processingStats smaller.
C27_CountersMonotonic ==
    [][\A k \in Counters : processingStats'[k] >= processingStats[k]]_vars

\* a batch has been folded into the counters while another one is in flight
C27_Witness ==
    /\ DOMAIN processingStats = Counters
    /\ processingStats.totalReceived = 3
    /\ processingStats.totalProcessed = 2
    /\ processingStats.totalInvalid = 1
    /\ \E h \in Handlers : InFlight(h)

-----------------------------------------------------------------------------
(* addRecord called again only when the call before it has returned, and   *)
(* no storage call failing: batches that arrive one after the other, with  *)
(* messages of two routes and two names.                                   *)

Msg3 == [name |-> "Asha", origin |-> "Mumbai", destination |-> "Pune"]
EnvGood3 == encrypt(JSONstringify(createMessageWithHash(Msg3)), "iv2")

SequentialBatches(h) ==
    IF h = 1 THEN { <<EnvGood1, EnvGood3, EnvGood2>> }
             ELSE { <<EnvGood3>>, <<EnvGood2, EnvGood1>> }

SequentialDatas(h) ==
    {[type |-> "object", stream |-> StringOf(createMessageStream(b))] :
         b \in SequentialBatches(h)}

NextSequential ==
    \/ Quiescent /\ \E h \in Handlers : \E s \in SocketsOf(h), data \in SequentialDatas(h) :
                        HandleMessageStream(h, s, data)
    \/ \E h \in Handlers : ProcessEncryptedMessage(h)
    \/ \E h \in Handlers : Finish(h)
    \/ \E h \in Handlers : FindOne(h)
    \/ \E h \in Handlers : FindOneAndUpdate(h)
    \/ \E h \in Handlers : Create(h)
    \/ \E h \in Handlers : UpdateOne(h)

SpecSequential == Init /\ [][NextSequential]_vars

\* no addRecord call is under way
NoCallUnderWay == \A h \in Handlers : ~handlers[h].call.active

\* the keys of a counter array, in order
KeysOf(array, f) == [i \in 1..Len(array) |-> array[i][f]]

\* C28: after any sequence of addRecord calls that did not overlap and all
\* succeeded, in every bucket the routes entry of a route counts the records
\* with that route, the nameFrequency entry of a name counts the records
\* with that name, a key has one entry at most, and a key without records
\* has no entry.
C28_SequentialCounters ==
    NoCallUnderWay =>
        /\ \A c \in calls : c.outcome = "saved"
        /\ \A doc \in store :
              /\ \A i \in 1..Len(doc.routes) :
                    /\ doc.routes[i].count = RecordsWithRoute(doc, doc.routes[i].route)
                    /\ doc.routes[i].count >= 1
                    /\ \A j \in 1..Len(doc.routes) :
                          doc.routes[j].route = doc.routes[i].route => j = i
              /\ \A i \in 1..Len(doc.records) :
                    CountFor(doc.routes, "route", RouteOf(doc.records[i])) >= 1
              /\ \A i \in 1..Len(doc.nameFrequency) :
                    /\ doc.nameFrequency[i].count =
                          RecordsWithName(doc, doc.nameFrequency[i].name)
                    /\ doc.nameFrequency[i].count >= 1
                    /\ \A j \in 1..Len(doc.nameFrequency) :
                          doc.nameFrequency[j].name = doc.nameFrequency[i].name => j = i
              /\ \A i \in 1..Len(doc.records) :
                    CountFor(doc.nameFrequency, "name", doc.records[i].name) >= 1

\* a bucket with two routes and two names, one of each counted twice
C28_Witness ==
    /\ NoCallUnderWay
    /\ \E doc \in store :
          /\ doc.recordCount = 4
          /\ KeysOf(doc.routes, "route") = <<"Mumbai->Delhi", "Mumbai->Pune">>
          /\ CountFor(doc.routes, "route", "Mumbai->Delhi") = 2
          /\ CountFor(doc.routes, "route", "Mumbai->Pune") = 2
          /\ KeysOf(doc.nameFrequency, "name") = <<"Asha", "Ravi">>
          /\ CountFor(doc.nameFrequency, "name", "Asha") = 3

-----------------------------------------------------------------------------
(* Invariants of the emitter *)

\* the sockets made by io() that are being connected or are connected
LiveSockets == {s \in 1..Len(emitter.sockets) : emitter.sockets[s] # "closed"}

\* C29: in every reachable state the producer has at most one socket that
\* is connecting or connected and at most one reconnect timer pending.
C29_OneConnectionOneTimer ==
    /\ Cardinality(LiveSockets) <= 1
    /\ emitter.reconnectTimers <= 1
    /\ LiveSockets \subseteq {emitter.socket}
    /\ emitter.reconnectTimers = 1 => LiveSockets = {}

\* a reconnect timer is pending after stop(), and sockets have come and gone
C29_Witness ==
    /\ trace.stopped
    /\ emitter.reconnectTimers = 1
    /\ Len(emitter.sockets) >= 3
    /\ LiveSockets = {}

\* C30: in every reachable state of the producer reconnectAttempts is at
\* least 0 and at most maxReconnectAttempts.
C30_ReconnectAttemptsBounded ==
    emitter.reconnectAttempts \in 0..maxReconnectAttempts

\* the counter is at the maximum with the last reconnect timer pending
C30_Witness ==
    /\ emitter.reconnectAttempts = maxReconnectAttempts
    /\ emitter.reconnectTimers = 1
    /\ trace.lastEvent \in {"connect_error", "disconnect", "reconnect"}

-----------------------------------------------------------------------------
(* Invariants of the buckets under concurrent addRecord calls *)

\* no two elements of a counter array have the same key
DistinctKeys(array, f) ==
    \A i, j \in 1..Len(array) : array[i][f] = array[j][f] => i = j

\* C31: in every reachable state, under every interleaving of the storage
\* steps of concurrent addRecord calls, no bucket has two routes entries
\* with the same route or two nameFrequency entries with the same name.
C31_NoDuplicateKeys ==
    \A doc \in store :
        /\ DistinctKeys(doc.routes, "route")
        /\ DistinctKeys(doc.nameFrequency, "name")

\* two calls for the same new route overlapped: both $inc updates matched
\* nothing, one $push added the entry and the filter of the other refused
C31_Witness ==
    /\ Quiescent
    /\ faults = 0
    /\ \E doc \in store :
          /\ doc.recordCount = 2
          /\ RouteOf(doc.records[1]) = RouteOf(doc.records[2])
          /\ doc.records[1].recordId[2] # doc.records[2].recordId[2]
          /\ Len(doc.routes) = 1
          /\ doc.routes[1].count = 1

\* the timestamps of the records of a bucket
TimestampsOf(doc) == {doc.records[i].timestamp : i \in 1..Len(doc.records)}

\* C32: once the addRecord calls under way have completed, in every bucket
\* lastRecordTime is the greatest timestamp of its records and
\* firstRecordTime the smallest, so that firstRecordTime <= lastRecordTime.
C32_RecordTimes ==
    NoCallUnderWay =>
        \A doc \in store :
            /\ \A t \in TimestampsOf(doc) : doc.firstRecordTime <= t /\ t <= doc.lastRecordTime
            /\ doc.firstRecordTime \in TimestampsOf(doc)
            /\ doc.lastRecordTime \in TimestampsOf(doc)
            /\ doc.firstRecordTime <= doc.lastRecordTime

-----------------------------------------------------------------------------
(* Identities of the counts *)

\* C33: in every acknowledgment processedCount = validCount + invalidCount,
\* savedCount <= validCount and processedCount + the length of errors =
\* messageCount; in every reachable state totalProcessed = totalValid +
\* totalInvalid, totalSaved <= totalValid and totalProcessed + errors <=
\* totalReceived, with equality when no batch is in flight.
C33_CountIdentities ==
    /\ \A h \in Handlers :
          Acked(h) =>
              LET r == handlers[h].response.results IN
              /\ r.processedCount = r.validCount + r.invalidCount
              /\ r.savedCount <= r.validCount
              /\ r.processedCount + Len(r.errors) = r.messageCount
    /\ processingStats.totalProcessed =
          processingStats.totalValid + processingStats.totalInvalid
    /\ processingStats.totalSaved <= processingStats.totalValid
    /\ processingStats.totalProcessed + processingStats.errors
          <= processingStats.totalReceived
    /\ Quiescent =>
          processingStats.totalProcessed + processingStats.errors
              = processingStats.totalReceived

\* one batch is acknowledged with an item saved and an item refused, while
\* another batch is counted as received and not yet as processed
C33_Witness ==
    \E h, g \in Handlers :
        /\ Acked(h)
        /\ handlers[h].response.results.savedCount >= 1
        /\ handlers[h].response.results.invalidCount >= 1
        /\ InFlight(g)
        /\ processingStats.totalProcessed + processingStats.errors
              < processingStats.totalReceived

-----------------------------------------------------------------------------
(* What an item leaves in the store *)

\* the places (document, index) of the records of item i of the batch of h
PlacesOf(h, i) == {p \in StoredBy(h) : p[1].records[p[2]].recordId[3] = i}

\* the items of the batch of h that were counted as saved (lines 135-137)
CountedSaved(h) ==
    {i \in 0..(handlers[h].i - 1) :
        \E c \in calls : c.h = h /\ c.i = i /\ c.outcome = "saved"}

\* C34: of an acknowledged batch, every item counted as saved has exactly
\* one record in exactly one bucket and every item counted as invalid has
\* none; and no routes or nameFrequency entry counts more than the records
\* of its key in its bucket, so no count was changed for an item without a
\* record.
C34_InvalidLeavesNoTrace ==
    /\ \A h \in Handlers :
          Acked(h) =>
              LET r == handlers[h].response.results
                  N == Len(handlers[h].encryptedMessages)
              IN  /\ r.savedCount = Cardinality(CountedSaved(h))
                  /\ r.invalidCount = N - Cardinality(CountedSaved(h))
                  /\ \A i \in 0..(N - 1) :
                        Cardinality(PlacesOf(h, i)) = IF i \in CountedSaved(h) THEN 1 ELSE 0
    /\ \A doc \in store :
          /\ doc.recordCount = Len(doc.records)
          /\ \A i \in 1..Len(doc.routes) :
                doc.routes[i].count <= RecordsWithRoute(doc, doc.routes[i].route)
          /\ \A i \in 1..Len(doc.nameFrequency) :
                doc.nameFrequency[i].count
                    <= RecordsWithName(doc, doc.nameFrequency[i].name)

\* one acknowledged batch has an item that the store refused, counted as
\* invalid, and another has a malformed item and an item that was saved
C34_Witness ==
    \E h, g \in Handlers :
        /\ Acked(h)
        /\ \E c \in calls : c.h = h /\ c.outcome \in {"fault", "duplicate"}
        /\ handlers[h].response.results.invalidCount >= 1
        /\ Acked(g)
        /\ MalformedAt(g) # {}
        /\ CountedSaved(g) # {}

-----------------------------------------------------------------------------
(* The emitter with its reconnect timer running *)

\* a timer set by setTimeout (line 155) fires once its delay is over
TimerFires == \E threw \in BOOLEAN : ReconnectTimerFires(threw)

SpecReconnect == Init /\ [][NextEmitter]_vars /\ WF_vars(TimerFires)

\* the emitter has just lost its connection or failed to connect, below the
\* limit of attempts and without stop() having been called
ConnectionLost ==
    /\ trace.lastEvent \in {"connect_error", "disconnect"}
    /\ ~trace.exhausted
    /\ ~trace.stopped

\* C35: after a lost connection or a failed attempt below the limit, with
\* the emitter not stopped, the reconnect timer eventually fires and
\* connect() is called again; and when the handshake of a socket succeeds
\* the emitter is connected, has its interval timer running and has sent a
\* batch.
C35_ReconnectLiveness ==
    /\ ConnectionLost ~> (trace.lastEvent = "reconnect")
    /\ [][\A s \in 1..MaxSockets :
             SocketConnect(s) =>
                 /\ emitter'.isConnected
                 /\ emitter'.socket = s
                 /\ emitter'.reconnectAttempts = 0
                 /\ emitter'.intervals = 1
                 /\ emitter'.emitted >= 1]_vars

\* the emitter is connected again through a socket that a reconnect timer
\* made after a connection was lost
C35_Witness ==
    /\ trace.lastEvent = "connect"
    /\ emitter.isConnected
    /\ emitter.socket >= 3
    /\ emitter.intervals = 1
    /\ ~trace.stopped

=============================================================================
